---- MODULE Spec2Model ----
(***************************************************************************)
(* Model of src/source.py: add_aws_source, the create-or-fetch            *)
(* registration of an AWS migration source.  Each invocation is a         *)
(* sequential chain of calls to two remote collaborators (the secret      *)
(* store and the migration service); several invocations may be in        *)
(* flight at once and share only the remote service's registry.           *)
(*                                                                         *)
(* Strings built with f-strings are modelled as sequences of their        *)
(* "/"-separated (or literal/placeholder) segments, so that two paths are *)
(* equal exactly when their segments are.                                 *)
(***************************************************************************)
EXTENDS Naturals, Sequences, FiniteSets

\* ---------------------------------------------------------------- bounds
NumCalls == 2

Inv == 1..NumCalls

\* ---------------------------------------------------------------- inputs
Projects  == {"p"}
Locations == {"us-central1"}
SourceIds == {"src1", "src2"}
Regions   == {"ca-central-1", "eu-west-1"}

\* errors of google.api_core.exceptions the collaborators raise
SecretErrors  == {"NotFound", "PermissionDenied"}
ServiceFaults == {"Unavailable"}

\* ------------------------------------------------------- pure helpers
\* main(): f"projects/{project_id}/secrets/{secret}/versions/latest"
SecretName(project_id, secret) ==
    <<"projects", project_id, "secrets", secret, "versions", "latest">>

\* payload.data.decode("UTF-8") of the secret version held by the store
SecretPayload(name) == name[4] \o "-value"

\* f"projects/{project_id}/locations/{location}"
Parent(project_id, location) ==
    <<"projects", project_id, "locations", location>>

\* variant: the description is a fixed text, the region is not interpolated
Description_NoRegion(aws_region) == <<"AWS source for ", "{aws_region}">>

\* f"AWS source for {aws_region}"
Description(aws_region) == <<"AWS source for ", aws_region>>

\* vmmigration_v1.AwsSourceDetails(...) wrapped in vmmigration_v1.Source(...)
Source(aws_region, access_key_id, secret_access_key) ==
    [aws_region       |-> aws_region,
     access_key_creds |-> <<access_key_id, secret_access_key>>,
     description      |-> Description(aws_region)]

\* vmmigration_v1.CreateSourceRequest(parent, source_id, source)
CreateSourceRequest(project_id, location, source_id, source) ==
    [parent    |-> Parent(project_id, location),
     source_id |-> source_id,
     source    |-> source]

\* client.source_path(project, location, source)
source_path(project, location, source) ==
    <<"projects", project, "locations", location, "sources", source>>

\* the name the migration service gives the resource of a create request
ResourceName(req) == req.parent \o <<"sources", req.source_id>>

\* the resource the migration service registers for a create request
Created(req) ==
    [name             |-> ResourceName(req),
     aws_region       |-> req.source.aws_region,
     access_key_creds |-> req.source.access_key_creds,
     description      |-> req.source.description]

NoSource  == [name |-> <<>>, aws_region |-> "", access_key_creds |-> <<>>,
              description |-> <<>>]
NoRequest == [parent |-> <<>>, source_id |-> "", source |-> NoSource]
NoArgs    == [project_id |-> "", location |-> "", source_id |-> "",
              aws_region |-> "", access_key_id_secret |-> <<>>,
              secret_access_key_secret |-> <<>>]
NoResult  == [kind |-> "none", error |-> "", response |-> NoSource]

Returned(resp) == [kind |-> "returned", error |-> "", response |-> resp]
Raised(e)      == [kind |-> "raised", error |-> e, response |-> NoSource]

\* one observable step of an invocation: a remote call with its outcome,
\* or a log line (op = "log", arg = <<level>>, res = the message's tag)
Event(op, arg, res) == [op |-> op, arg |-> arg, res |-> res]
Log(level, tag)     == Event("log", <<level>>, tag)

\* ---------------------------------------------------------------- state
VARIABLES
    pc,        \* phase of each invocation
    args,      \* the arguments each invocation was called with
    creds,     \* secrets resolved so far: <<access_key_id, secret_access_key>>
    request,   \* the CreateSourceRequest built by the invocation
    result,    \* what the invocation returned or raised
    trace,     \* remote calls issued and log lines emitted, in order
    pred,      \* invocations that had already ended when this one started
    sources    \* the migration service's registry: resources created, in order

vars == <<pc, args, creds, request, result, trace, pred, sources>>

Terminal == {"Succeeded", "Failed"}

\* the registry entries whose name is n
Registered(n) == {k \in 1..Len(sources) : sources[k].name = n}
Exists(n)     == Registered(n) # {}
Lookup(n)     == sources[CHOOSE k \in Registered(n) : TRUE]

Init ==
    /\ pc      = [i \in Inv |-> "Idle"]
    /\ args    = [i \in Inv |-> NoArgs]
    /\ creds   = [i \in Inv |-> <<>>]
    /\ request = [i \in Inv |-> NoRequest]
    /\ result  = [i \in Inv |-> NoResult]
    /\ trace   = [i \in Inv |-> <<>>]
    /\ pred    = [i \in Inv |-> {}]
    /\ sources = <<>>

\* ------------------------------------------------- collaborators' answers
\* secret_client.access_secret_version(name): the payload or an error
SecretOutcomes == {"ok"} \cup SecretErrors

\* client.create_source(request): an operation handle, AlreadyExists when
\* the identifier collides, or another service failure
CreateOutcomes(req) ==
    (IF Exists(ResourceName(req)) THEN {"AlreadyExists"} ELSE {"ok"})
        \cup ServiceFaults

\* operation.result(): the created resource, AlreadyExists when the
\* identifier was taken while the operation was pending, or another failure
ResultOutcomes(req) ==
    (IF Exists(ResourceName(req)) THEN {"AlreadyExists"} ELSE {"ok"})
        \cup ServiceFaults

\* client.get_source(name): the resource, NotFound, or another failure
GetOutcomes(name) ==
    (IF Exists(name) THEN {"ok"} ELSE {"NotFound"}) \cup ServiceFaults

\* ------------------------------------------------------------ handlers
\* except exceptions.NotFound as e: logging.error(...); raise
SecretHandlerLog(e) ==
    IF e = "NotFound" THEN <<Log("error", "secret-not-found")>> ELSE <<>>

\* variant: no AlreadyExists clause, every error is logged and re-raised
CreateHandlerNext_NoFetch(e) == "Failed"

\* variant: the fetch of the existing source answers every error
CreateHandlerNext_AlwaysFetch(e) == "FetchingExisting"

\* variant: errors other than AlreadyExists submit the request again
CreateHandlerNext_Retry(e) ==
    IF e = "AlreadyExists" THEN "FetchingExisting" ELSE "Submitting"

\* except exceptions.AlreadyExists / except Exception as e
\* the phase the invocation continues in after create_source or
\* operation.result() raised e
CreateHandlerNext(e) ==
    IF e = "AlreadyExists" THEN "FetchingExisting" ELSE "Failed"

CreateHandlerLog(e) ==
    IF e = "AlreadyExists" THEN <<Log("warning", "already-exists")>>
                           ELSE <<Log("error", "create-failed")>>

\* ------------------------------------------------------------- actions
\* main() -> add_aws_source(...): the clients are created, nothing remote yet.
\* Invocations are numbered in the order they start (they are
\* interchangeable otherwise); a later one may start while earlier ones run.
Start(i) ==
    /\ pc[i] = "Idle"
    /\ \A j \in Inv : j < i => pc[j] # "Idle"
    /\ \E p \in Projects, l \in Locations, s \in SourceIds, r \in Regions :
          args' = [args EXCEPT ![i] =
                     [project_id |-> p, location |-> l, source_id |-> s,
                      aws_region |-> r,
                      access_key_id_secret |-> SecretName(p, "aws-access-key-id"),
                      secret_access_key_secret |->
                          SecretName(p, "aws-secret-access-key")]]
    /\ pc'   = [pc EXCEPT ![i] = "ResolvingSecrets"]
    /\ pred' = [pred EXCEPT ![i] = {j \in Inv : pc[j] \in Terminal}]
    /\ UNCHANGED <<creds, request, result, trace, sources>>

\* variant: each secret is read in a try block of its own, so a failure of
\* the first read does not stop the second
ResolveAccessKeyId_Continue(i) ==
    /\ pc[i] = "ResolvingSecrets"
    /\ Len(creds[i]) = 0
    /\ \E r \in SecretOutcomes :
        LET ev == Event("access_secret_version", args[i].access_key_id_secret, r)
        IN  /\ creds' = [creds EXCEPT ![i] =
                   <<IF r = "ok"
                     THEN SecretPayload(args[i].access_key_id_secret) ELSE "">>]
            /\ trace' = [trace EXCEPT ![i] =
                   Append(@, ev) \o (IF r = "ok" THEN <<>> ELSE SecretHandlerLog(r))]
    /\ UNCHANGED <<pc, result, args, request, pred, sources>>

\* access_key_id = secret_client.access_secret_version(...)...decode("UTF-8")
ResolveAccessKeyId(i) ==
    /\ pc[i] = "ResolvingSecrets"
    /\ Len(creds[i]) = 0
    /\ \E r \in SecretOutcomes :
        LET ev == Event("access_secret_version", args[i].access_key_id_secret, r)
        IN  IF r = "ok"
            THEN /\ creds' = [creds EXCEPT ![i] =
                        <<SecretPayload(args[i].access_key_id_secret)>>]
                 /\ trace' = [trace EXCEPT ![i] = Append(@, ev)]
                 /\ UNCHANGED <<pc, result>>
            ELSE /\ trace' = [trace EXCEPT ![i] =
                        Append(@, ev) \o SecretHandlerLog(r)]
                 /\ pc'     = [pc EXCEPT ![i] = "Failed"]
                 /\ result' = [result EXCEPT ![i] = Raised(r)]
                 /\ UNCHANGED creds
    /\ UNCHANGED <<args, request, pred, sources>>

\* variant: the handler logs the failed read but does not re-raise, and the
\* request is submitted with an empty secret access key
ResolveSecretAccessKey_NoRaise(i) ==
    /\ pc[i] = "ResolvingSecrets"
    /\ Len(creds[i]) = 1
    /\ \E r \in SecretOutcomes :
        LET ev == Event("access_secret_version",
                        args[i].secret_access_key_secret, r)
            key == IF r = "ok"
                   THEN SecretPayload(args[i].secret_access_key_secret) ELSE ""
        IN  /\ creds' = [creds EXCEPT ![i] = Append(@, key)]
            /\ request' = [request EXCEPT ![i] =
                   CreateSourceRequest(args[i].project_id, args[i].location,
                       args[i].source_id,
                       Source(args[i].aws_region, creds[i][1], key))]
            /\ trace' = [trace EXCEPT ![i] =
                   Append(@, ev) \o (IF r = "ok" THEN <<>> ELSE SecretHandlerLog(r))
                       \o <<Log("info", "creating")>>]
            /\ pc' = [pc EXCEPT ![i] = "Submitting"]
    /\ UNCHANGED <<result, args, pred, sources>>

\* secret_access_key = secret_client.access_secret_version(...); on success
\* the source and the request are built and the "Creating" line is logged
ResolveSecretAccessKey(i) ==
    /\ pc[i] = "ResolvingSecrets"
    /\ Len(creds[i]) = 1
    /\ \E r \in SecretOutcomes :
        LET ev == Event("access_secret_version",
                        args[i].secret_access_key_secret, r)
            key == SecretPayload(args[i].secret_access_key_secret)
        IN  IF r = "ok"
            THEN /\ creds' = [creds EXCEPT ![i] = Append(@, key)]
                 /\ request' = [request EXCEPT ![i] =
                        CreateSourceRequest(args[i].project_id, args[i].location,
                            args[i].source_id,
                            Source(args[i].aws_region, creds[i][1], key))]
                 /\ trace' = [trace EXCEPT ![i] =
                        Append(@, ev) \o <<Log("info", "creating")>>]
                 /\ pc' = [pc EXCEPT ![i] = "Submitting"]
                 /\ UNCHANGED result
            ELSE /\ trace' = [trace EXCEPT ![i] =
                        Append(@, ev) \o SecretHandlerLog(r)]
                 /\ pc'     = [pc EXCEPT ![i] = "Failed"]
                 /\ result' = [result EXCEPT ![i] = Raised(r)]
                 /\ UNCHANGED <<creds, request>>
    /\ UNCHANGED <<args, pred, sources>>

\* what an invocation does when create_source or operation.result() raised r
\* after the call's event ev: the handler's log line, then either the
\* fetch of the existing source begins or the error is re-raised
HandleCreateError(i, ev, r) ==
    /\ trace' = [trace EXCEPT ![i] = Append(@, ev) \o CreateHandlerLog(r)]
    /\ pc'    = [pc EXCEPT ![i] = CreateHandlerNext(r)]
    /\ result' = [result EXCEPT ![i] =
                    IF CreateHandlerNext(r) = "Failed" THEN Raised(r) ELSE @]

\* operation = client.create_source(request=request)
CreateSource(i) ==
    /\ pc[i] = "Submitting"
    /\ \E r \in CreateOutcomes(request[i]) :
        LET ev == Event("create_source", ResourceName(request[i]), r)
        IN  IF r = "ok"
            THEN /\ trace' = [trace EXCEPT ![i] =
                        Append(@, ev) \o <<Log("info", "waiting")>>]
                 /\ pc' = [pc EXCEPT ![i] = "AwaitingOperation"]
                 /\ UNCHANGED result
            ELSE HandleCreateError(i, ev, r)
    /\ UNCHANGED <<args, creds, request, pred, sources>>

\* response = operation.result(); return response
AwaitOperation(i) ==
    /\ pc[i] = "AwaitingOperation"
    /\ \E r \in ResultOutcomes(request[i]) :
        LET ev   == Event("result", ResourceName(request[i]), r)
            resp == Created(request[i])
        IN  IF r = "ok"
            THEN /\ sources' = Append(sources, resp)
                 /\ trace' = [trace EXCEPT ![i] =
                        Append(@, ev) \o <<Log("info", "created")>>]
                 /\ pc' = [pc EXCEPT ![i] = "Succeeded"]
                 /\ result' = [result EXCEPT ![i] = Returned(resp)]
            ELSE /\ HandleCreateError(i, ev, r)
                 /\ UNCHANGED sources
    /\ UNCHANGED <<args, creds, request, pred>>

\* return client.get_source(name=source_path), inside the AlreadyExists
\* handler: an error of get_source leaves the function as it is
GetSource(i) ==
    /\ pc[i] = "FetchingExisting"
    /\ LET path == source_path(args[i].project_id, args[i].location,
                               args[i].source_id)
       IN \E r \in GetOutcomes(path) :
            /\ trace' = [trace EXCEPT ![i] =
                            Append(@, Event("get_source", path, r))]
            /\ IF r = "ok"
               THEN /\ pc' = [pc EXCEPT ![i] = "Succeeded"]
                    /\ result' = [result EXCEPT ![i] = Returned(Lookup(path))]
               ELSE /\ pc' = [pc EXCEPT ![i] = "Failed"]
                    /\ result' = [result EXCEPT ![i] = Raised(r)]
    /\ UNCHANGED <<args, creds, request, pred, sources>>

Next ==
    \E i \in Inv :
        \/ Start(i)
        \/ ResolveAccessKeyId(i)
        \/ ResolveSecretAccessKey(i)
        \/ CreateSource(i)
        \/ AwaitOperation(i)
        \/ GetSource(i)

Spec == Init /\ [][Next]_vars

\* every remote call of a started invocation eventually returns or raises:
\* the call chain is sequential and blocking, nothing else schedules it
Step(i) ==
    \/ ResolveAccessKeyId(i)
    \/ ResolveSecretAccessKey(i)
    \/ CreateSource(i)
    \/ AwaitOperation(i)
    \/ GetSource(i)

FairSpec == Spec /\ \A i \in Inv : WF_vars(Step(i))

\* ------------------------------------------------ observations on a trace
Positions(i)   == 1..Len(trace[i])
CallsOf(i, op) == {k \in Positions(i) : trace[i][k].op = op}
MigrationOps   == {"create_source", "result", "get_source"}
MigrationCalls(i) == {k \in Positions(i) : trace[i][k].op \in MigrationOps}
SecretReads(i, name) ==
    {k \in CallsOf(i, "access_secret_version") : trace[i][k].arg = name}

\* positions where a secret failed to resolve
SecretFailures(i) ==
    {k \in CallsOf(i, "access_secret_version") : trace[i][k].res # "ok"}
\* positions where create_source or operation.result() reported AlreadyExists
Collisions(i) ==
    {k \in CallsOf(i, "create_source") \cup CallsOf(i, "result") :
        trace[i][k].res = "AlreadyExists"}
\* positions where create_source or operation.result() failed otherwise
OtherFailures(i) ==
    {k \in CallsOf(i, "create_source") \cup CallsOf(i, "result") :
        trace[i][k].res \notin {"ok", "AlreadyExists"}}
\* the collaborators answered this invocation without any outage or
\* missing/inaccessible secret
FaultFree(i) ==
    \A k \in Positions(i) :
        /\ trace[i][k].op = "access_secret_version" => trace[i][k].res = "ok"
        /\ trace[i][k].op \in MigrationOps => trace[i][k].res \notin ServiceFaults

\* parent_location + "/sources/" + source_id for the invocation's arguments
ExpectedPath(i) ==
    <<"projects", args[i].project_id, "locations", args[i].location,
      "sources", args[i].source_id>>
SameTarget(i, j) ==
    /\ args[i].project_id = args[j].project_id
    /\ args[i].location = args[j].location
    /\ args[i].source_id = args[j].source_id

\* ------------------------------------------------------------- claims
\* C1: when either secret fails to resolve, the invocation ends raising the
\* secret store's error, and it has issued no call to the migration service;
\* no create_source, result or get_source call is issued before both secrets
\* were read successfully, the access key id first.
C1_SecretFailureStopsBeforeService ==
    \A i \in Inv :
        /\ \A k \in SecretFailures(i) :
              /\ pc[i] = "Failed"
              /\ result[i] = Raised(trace[i][k].res)
              /\ MigrationCalls(i) = {}
        /\ \A k \in MigrationCalls(i) :
              \E a, b \in 1..(k-1) :
                  /\ a < b
                  /\ trace[i][a] = Event("access_secret_version",
                                         args[i].access_key_id_secret, "ok")
                  /\ trace[i][b] = Event("access_secret_version",
                                         args[i].secret_access_key_secret, "ok")

\* the second secret failed after the first resolved, while another
\* invocation got as far as the migration service
C1_Witness ==
    \E i, j \in Inv :
        /\ pc[i] = "Failed"
        /\ Len(creds[i]) = 1
        /\ SecretFailures(i) # {}
        /\ MigrationCalls(j) # {}

\* C2: when create_source or operation.result() reports AlreadyExists, the
\* invocation goes on to exactly one get_source call, on the path derived
\* from (parent_location, source_id), and ends with that call's outcome: it
\* returns the source the call fetched, and never raises the AlreadyExists.
C2_AlreadyExistsFetchesOnce ==
    \A i \in Inv : \A k \in Collisions(i) :
        /\ pc[i] \in {"FetchingExisting"} \cup Terminal
        /\ result[i] # Raised("AlreadyExists")
        /\ pc[i] = "FetchingExisting" => CallsOf(i, "get_source") = {}
        /\ pc[i] \in Terminal =>
              /\ Cardinality(CallsOf(i, "get_source")) = 1
              /\ \A g \in CallsOf(i, "get_source") :
                    /\ g > k
                    /\ trace[i][g].arg = ExpectedPath(i)
                    /\ IF trace[i][g].res = "ok"
                       THEN /\ pc[i] = "Succeeded"
                            /\ result[i] = Returned(Lookup(ExpectedPath(i)))
                       ELSE result[i] = Raised(trace[i][g].res)

\* create_source was rejected with AlreadyExists and the fetch that
\* followed returned the source another invocation had registered
C2_Witness ==
    \E i, j \in Inv :
        /\ i # j
        /\ pc[j] = "Succeeded"
        /\ \E k \in Collisions(j) : trace[j][k].op = "create_source"
        /\ \E g \in CallsOf(j, "get_source") : trace[j][g].res = "ok"
        /\ result[j] = result[i]

\* C3: when create_source or operation.result() fails for a reason other
\* than AlreadyExists, the invocation raises that failure to the caller and
\* issues no get_source call.
C3_OtherFailureRaisesWithoutFetch ==
    \A i \in Inv : \A k \in OtherFailures(i) :
        /\ pc[i] = "Failed"
        /\ result[i] = Raised(trace[i][k].res)
        /\ CallsOf(i, "get_source") = {}

\* one invocation failed in create_source, another in operation.result()
C3_Witness ==
    \E i, j \in Inv :
        /\ \E k \in OtherFailures(i) : trace[i][k].op = "create_source"
        /\ \E k \in OtherFailures(j) : trace[j][k].op = "result"
        /\ pc[i] = "Failed" /\ pc[j] = "Failed"

\* C4: when an invocation starts after an earlier one with identical
\* arguments has returned, it does not raise the AlreadyExists of the
\* collision, and, the collaborators answering it, it returns a source at
\* the same path as the first.
C4_SecondCallIdempotent ==
    \A i, j \in Inv :
        (i \in pred[j] /\ args[i] = args[j] /\ pc[i] = "Succeeded") =>
            /\ result[j] # Raised("AlreadyExists")
            /\ (pc[j] \in Terminal /\ FaultFree(j)) =>
                  /\ pc[j] = "Succeeded"
                  /\ result[j].response.name = result[i].response.name
                  /\ result[j].response.name = ExpectedPath(j)

\* the first call created the source, the second one ran afterwards with
\* the same arguments, collided and returned
C4_Witness ==
    \E i, j \in Inv :
        /\ i \in pred[j] /\ args[i] = args[j]
        /\ \E k \in CallsOf(i, "result") : trace[i][k].res = "ok"
        /\ Collisions(j) # {}
        /\ pc[i] = "Succeeded" /\ pc[j] = "Succeeded"

\* C5: an invocation whose operation.result() completes successfully (its
\* secrets resolved, the pair not registered before) returns a source whose
\* path is parent_location + "/sources/" + source_id, built from a request
\* whose region is the region argument and whose description is
\* "AWS source for {region}".
C5_FreshRegistrationResult ==
    \A i \in Inv : \A k \in CallsOf(i, "result") :
        trace[i][k].res = "ok" =>
            /\ pc[i] = "Succeeded"
            /\ result[i].kind = "returned"
            /\ result[i].response.name = ExpectedPath(i)
            /\ request[i].parent =
                  <<"projects", args[i].project_id,
                    "locations", args[i].location>>
            /\ request[i].source_id = args[i].source_id
            /\ request[i].source.aws_region = args[i].aws_region
            /\ request[i].source.description =
                  <<"AWS source for ", args[i].aws_region>>
            /\ result[i].response.aws_region = args[i].aws_region
            /\ result[i].response.description = request[i].source.description
            /\ result[i].response.access_key_creds = creds[i]

\* two different identifiers were registered for two different regions
C5_Witness ==
    \E i, j \in Inv :
        /\ pc[i] = "Succeeded" /\ pc[j] = "Succeeded"
        /\ args[i].source_id # args[j].source_id
        /\ args[i].aws_region # args[j].aws_region
        /\ \E k \in CallsOf(i, "result") : trace[i][k].res = "ok"
        /\ \E k \in CallsOf(j, "result") : trace[j][k].res = "ok"

\* C6: in every reachable state the migration service holds at most one
\* resource per (parent_location, source_id), and a collision is never
\* raised to the caller: the invocation that met it returns the existing
\* source once the fetch answers.
C6_RegisteredAtMostOnce ==
    /\ \A a, b \in 1..Len(sources) :
          sources[a].name = sources[b].name => a = b
    /\ \A i \in Inv :
          /\ result[i] # Raised("AlreadyExists")
          /\ (Collisions(i) # {} /\ pc[i] \in Terminal /\ FaultFree(i)) =>
                /\ pc[i] = "Succeeded"
                /\ Cardinality(Registered(result[i].response.name)) = 1

\* two invocations asked for the same identifier, one resource is held
C6_Witness ==
    \E i, j \in Inv :
        /\ i # j /\ SameTarget(i, j)
        /\ pc[i] = "Succeeded" /\ pc[j] = "Succeeded"
        /\ Collisions(j) # {}
        /\ Len(sources) = 1

\* two invocations overlapped in time
Overlap(i, j) == i # j /\ i \notin pred[j] /\ j \notin pred[i]

ConvergeSafe ==
    \A i, j \in Inv :
        (/\ Overlap(i, j) /\ SameTarget(i, j)
         /\ pc[i] \in Terminal /\ pc[j] \in Terminal
         /\ FaultFree(i) /\ FaultFree(j)) =>
            /\ pc[i] = "Succeeded" /\ pc[j] = "Succeeded"
            /\ result[i].response = result[j].response
            /\ result[i].response.name = ExpectedPath(i)
            /\ \/ Collisions(i) # {}
               \/ Collisions(j) # {}
            /\ \A x \in {i, j} :
                  \/ /\ Collisions(x) = {}
                     /\ \E k \in CallsOf(x, "result") : trace[x][k].res = "ok"
                  \/ /\ Collisions(x) # {}
                     /\ \E k \in CallsOf(x, "get_source") : trace[x][k].res = "ok"

\* C7: two invocations running concurrently for the same parent_location
\* and source_id, under every interleaving of their steps, both end (every
\* invocation that was started has eventually ended for good), and, the
\* collaborators answering them, both return the same source at the
\* derived path; an invocation that did not create it arrived there
\* through the already-exists fetch.
C7_ConcurrentConverge ==
    /\ []ConvergeSafe
    /\ <>[](\A i \in Inv : pc[i] = "Idle" \/ pc[i] \in Terminal)

\* both had their create_source accepted before either operation ended;
\* the loser met AlreadyExists in operation.result() and fetched
C7_Witness ==
    \E i, j \in Inv :
        /\ Overlap(i, j) /\ SameTarget(i, j)
        /\ pc[i] = "Succeeded" /\ pc[j] = "Succeeded"
        /\ \E k \in CallsOf(i, "result") : trace[i][k].res = "ok"
        /\ \E k \in Collisions(j) : trace[j][k].op = "result"
        /\ result[i] = result[j]

\* the last thing a failed invocation did before raising was to log an error
LoggedBeforeRaise(i) ==
    /\ Len(trace[i]) > 0
    /\ trace[i][Len(trace[i])].op = "log"
    /\ trace[i][Len(trace[i])].arg = <<"error">>

\* C8: every failure an invocation propagates to its caller has been logged
\* before it propagates (a failed secret read of any error kind, a failed
\* create_source, a failed operation.result(), a failed get_source), and
\* AlreadyExists is the only failure that is not surfaced.
C8_EveryFailureLogged ==
    \A i \in Inv :
        /\ pc[i] = "Failed" => LoggedBeforeRaise(i)
        /\ result[i] # Raised("AlreadyExists")

\* the phase transitions of the state machine as the specification lists them
ListedTransitions ==
    {<<"Idle", "ResolvingSecrets">>,
     <<"ResolvingSecrets", "Submitting">>,
     <<"Submitting", "AwaitingOperation">>,
     <<"AwaitingOperation", "Succeeded">>,
     <<"AwaitingOperation", "FetchingExisting">>,
     <<"AwaitingOperation", "Failed">>,
     <<"FetchingExisting", "Succeeded">>,
     <<"FetchingExisting", "Failed">>}

\* the transitions the code adds: a secret that does not resolve, and a
\* create_source call that itself raises
CodeTransitions ==
    ListedTransitions \cup
    {<<"ResolvingSecrets", "Failed">>,
     <<"Submitting", "FetchingExisting">>,
     <<"Submitting", "Failed">>}

\* the fetch decides where FetchingExisting leads
FetchDecides(i) ==
    (pc[i] = "FetchingExisting" /\ pc'[i] # pc[i]) =>
        /\ Len(trace'[i]) = Len(trace[i]) + 1
        /\ trace'[i][Len(trace'[i])].op = "get_source"
        /\ pc'[i] = (IF trace'[i][Len(trace'[i])].res = "ok"
                     THEN "Succeeded" ELSE "Failed")

\* C9 as stated: the phase of an invocation moves only along
\* Idle -> ResolvingSecrets -> Submitting -> AwaitingOperation ->
\* {Succeeded | FetchingExisting -> Succeeded | Failed}.
C9_OnlyListedTransitions ==
    [][\A i \in Inv :
          pc'[i] # pc[i] => <<pc[i], pc'[i]>> \in ListedTransitions]_vars

\* C9 as amended: the phase moves only along the listed transitions and
\* ResolvingSecrets -> Failed, Submitting -> FetchingExisting and
\* Submitting -> Failed; no step leaves Succeeded or Failed; and
\* FetchingExisting goes to Succeeded when the fetch answers, to Failed
\* when the fetch fails.
C9_PhaseTransitions ==
    [][\A i \in Inv :
          /\ pc'[i] # pc[i] => <<pc[i], pc'[i]>> \in CodeTransitions
          /\ pc[i] \in Terminal =>
                (pc'[i] = pc[i] /\ result'[i] = result[i]
                                /\ trace'[i] = trace[i])
          /\ FetchDecides(i)]_vars

\* an invocation went Submitting -> FetchingExisting -> Failed: its
\* create_source was rejected and the fetch failed
C9_Witness ==
    \E i \in Inv :
        /\ pc[i] = "Failed"
        /\ \E k \in Collisions(i) : trace[i][k].op = "create_source"
        /\ \E g \in CallsOf(i, "get_source") : trace[i][g].res # "ok"

\* C10: within one invocation each secret is read at most once, and
\* create_source, operation.result() and get_source are each called at most
\* once, whatever fails; when the first secret does not resolve the second
\* is never read.
C10_NoRetry ==
    \A i \in Inv :
        /\ Cardinality(SecretReads(i, args[i].access_key_id_secret)) <= 1
        /\ Cardinality(SecretReads(i, args[i].secret_access_key_secret)) <= 1
        /\ \A op \in MigrationOps : Cardinality(CallsOf(i, op)) <= 1
        /\ Cardinality(CallsOf(i, "access_secret_version")) <= 2
        /\ (\E k \in SecretFailures(i) :
                trace[i][k].arg = args[i].access_key_id_secret) =>
              SecretReads(i, args[i].secret_access_key_secret) = {}

\* one invocation stopped at its first secret with a single read, another
\* failed in operation.result() after making every call before it once
C10_Witness ==
    \E i, j \in Inv :
        /\ pc[i] = "Failed"
        /\ Len(creds[i]) = 0
        /\ Cardinality(CallsOf(i, "access_secret_version")) = 1
        /\ pc[j] = "Failed"
        /\ \E k \in CallsOf(j, "result") : trace[j][k].res \in ServiceFaults

====
